---- MODULE Spec2Model ----
(***************************************************************************)
(* Data Alchemist: the multi-strategy file-type detection engine           *)
(* (data_alchemist/detection/heuristics.py and detector.py).               *)
(*                                                                         *)
(* A file is a name, a kind (missing / directory / regular file), a read   *)
(* permission and its content.  The content is kept as the physical lines  *)
(* of the file, each with its bytes and its line terminator; the bytes of  *)
(* the file are the concatenation.  Confidences are kept in hundredths     *)
(* (1.0 = 100, 0.8 = 80, 0.15 = 15) so that every comparison the code      *)
(* makes on floats is an exact comparison on integers.                     *)
(***************************************************************************)
EXTENDS Integers, Sequences, FiniteSets, Bags, TLC

VARIABLES file, seen, res, manager, history

vars == <<file, seen, res, manager, history>>

(***************************************************************************)
(* Bounds of the model                                                     *)
(***************************************************************************)
\* longest run of text lines that follows the leading lines of a file
MaxLen == 2

None == "None"

Min(a, b) == IF a <= b THEN a ELSE b

(***************************************************************************)
(* Python primitives on byte strings and strings (tuples of codes)         *)
(***************************************************************************)
\* bytes.startswith(prefix)
StartsWith(s, p) == Len(s) >= Len(p) /\ SubSeq(s, 1, Len(p)) = p

\* s[a:b] with 0 <= a <= b: never raises, clips at the end of s
Slice(s, a, b) == SubSeq(s, a + 1, Min(b, Len(s)))

\* str.lower() on ASCII
Lower(s) == [i \in 1..Len(s) |-> IF s[i] \in 65..90 THEN s[i] + 32 ELSE s[i]]

\* the characters str.strip() removes (ASCII whitespace)
Whitespace == {9, 10, 11, 12, 13, 28, 29, 30, 31, 32}

\* decoding with errors='ignore': bytes that are not valid UTF-8 are dropped
\* (the byte strings of this model hold no multi-byte sequence)
RECURSIVE Decode(_)
Decode(b) ==
    IF b = <<>> THEN <<>>
    ELSE IF Head(b) >= 128 THEN Decode(Tail(b))
    ELSE <<Head(b)>> \o Decode(Tail(b))

RECURSIVE LStrip(_)
LStrip(s) == IF s # <<>> /\ Head(s) \in Whitespace THEN LStrip(Tail(s)) ELSE s

RECURSIVE RStrip(_)
RStrip(s) ==
    IF s # <<>> /\ s[Len(s)] \in Whitespace
    THEN RStrip(SubSeq(s, 1, Len(s) - 1)) ELSE s

\* str.strip()
Strip(s) == RStrip(LStrip(s))

\* str.count(c) for a one-character c
RECURSIVE Count(_, _)
Count(s, c) ==
    IF s = <<>> THEN 0
    ELSE (IF Head(s) = c THEN 1 ELSE 0) + Count(Tail(s), c)

RECURSIVE Sum(_)
Sum(q) == IF q = <<>> THEN 0 ELSE Head(q) + Sum(Tail(q))

RECURSIVE MaxOf(_)
MaxOf(q) ==
    IF Len(q) = 1 THEN Head(q)
    ELSE LET m == MaxOf(Tail(q)) IN IF Head(q) >= m THEN Head(q) ELSE m

RECURSIVE Flatten(_)
Flatten(q) == IF q = <<>> THEN <<>> ELSE Head(q) \o Flatten(Tail(q))

(***************************************************************************)
(* The files the engine is run on                                          *)
(***************************************************************************)
\* a physical line: its bytes (no line break inside) and its terminator
Line(text, eol) == [text |-> text, eol |-> eol]

LF == <<10>>
CRLF == <<13, 10>>

\* leading lines of a file: nothing, or the start of a binary format
NoLead == <<>>
PngLead == <<Line(<<137, 80, 78, 71>>, CRLF), Line(<<26>>, LF)>>
JpegLead == <<Line(<<255, 216, 255, 224>>, LF)>>
WavLead ==
    <<Line(<<82, 73, 70, 70, 36, 0, 0, 0, 87, 65, 86, 69, 102, 109, 116, 32>>, LF)>>
AviLead ==
    <<Line(<<82, 73, 70, 70, 36, 0, 0, 0, 65, 86, 73, 32>>, LF)>>
RiffOnly == <<Line(<<82, 73, 70, 70>>, <<>>)>>
\* the first four bytes of the PNG signature, and nothing more
PngShort == <<Line(<<137, 80, 78, 71>>, <<>>)>>
Gif89Lead == <<Line(<<71, 73, 70, 56, 57, 97>>, LF)>>
Gif87Lead == <<Line(<<71, 73, 70, 56, 55, 97>>, LF)>>
PdfLead == <<Line(<<37, 80, 68, 70, 45, 49, 46, 52>>, LF)>>

Leads ==
    {NoLead, PngLead, PngShort, JpegLead, WavLead, AviLead, RiffOnly,
     Gif89Lead, Gif87Lead, PdfLead}

\* text lines: " ", "hi", "a,b,c", "2024-01-15 x", "ERROR x"
TextLines ==
    {Line(<<32>>, LF),
     Line(<<104, 105>>, LF),
     Line(<<97, 44, 98, 44, 99>>, LF),
     Line(<<50, 48, 50, 52, 45, 48, 49, 45, 49, 53, 32, 120>>, LF),
     Line(<<69, 82, 82, 79, 82, 32, 120>>, LF)}

Bodies == UNION {[1..n -> TextLines] : n \in 0..MaxLen}

\* a line without terminator can only be the last line of a file
Contents ==
    {c \in {lead \o body : lead \in Leads, body \in Bodies} :
        \A i \in 1..(Len(c) - 1) : c[i].eol # <<>>}

\* file names: d.csv d.CSV d.tsv d.log d.txt d.png d.xyz d
Names ==
    {<<100, 46, 99, 115, 118>>, <<100, 46, 67, 83, 86>>,
     <<100, 46, 116, 115, 118>>, <<100, 46, 108, 111, 103>>,
     <<100, 46, 116, 120, 116>>, <<100, 46, 112, 110, 103>>,
     <<100, 46, 120, 121, 122>>, <<100>>}

\* a regular file that can be read, with any content; a regular file that
\* cannot be read (its content is only the leading lines); a path that names
\* nothing, or a directory
Files ==
    [name : Names, kind : {"file"}, readable : {TRUE}, lines : Contents]
        \cup [name : Names, kind : {"file"}, readable : {FALSE}, lines : Leads]
        \cup [name : Names, kind : {"missing", "dir"}, readable : {TRUE},
              lines : {<<>>}]

\* the bytes of the file
Bytes(f) == Flatten([i \in 1..Len(f.lines) |-> f.lines[i].text \o f.lines[i].eol])

\* Path.exists(), Path.is_file(), Path.stat().st_size
exists(f) == f.kind # "missing"
is_file(f) == f.kind = "file"
st_size(f) == Len(Bytes(f))

\* open() raises IOError (PermissionError) when the file cannot be read
CanOpen(f) == f.kind = "file" /\ f.readable

\* f.read() for f.read(n): the whole file
Read_whole(f, n) == Bytes(f)

\* f.read(n) on a file opened 'rb'
Read(f, n) == SubSeq(Bytes(f), 1, Min(n, Len(Bytes(f))))

\* iteration over a file opened 'r' with errors='ignore': one decoded string
\* per physical line, its terminator translated to "\n"
TextOf(f) ==
    [i \in 1..Len(f.lines) |->
        Decode(f.lines[i].text) \o (IF f.lines[i].eol = <<>> THEN <<>> ELSE LF)]

\* Path.suffix: from the last dot of the name, unless the name starts or
\* ends with it
RECURSIVE RFind(_, _)
RFind(s, c) ==
    IF s = <<>> THEN -1
    ELSE IF s[Len(s)] = c THEN Len(s) - 1
    ELSE RFind(SubSeq(s, 1, Len(s) - 1), c)

suffix(f) ==
    LET i == RFind(f.name, 46)
    IN  IF 0 < i /\ i < Len(f.name) - 1 THEN Slice(f.name, i, Len(f.name))
        ELSE <<>>

(***************************************************************************)
(* Binary signatures                                                       *)
(***************************************************************************)
BINARY_SIGNATURES ==
    [png  |-> <<137, 80, 78, 71, 13, 10, 26, 10>>,
     jpeg |-> <<255, 216, 255>>,
     wav  |-> <<<<82, 73, 70, 70>>, <<87, 65, 86, 69>>>>,
     gif  |-> <<71, 73, 70, 56, 57, 97>>,
     pdf  |-> <<37, 80, 68, 70>>]

\* the order in which the dict is iterated
SignatureOrder == <<"png", "jpeg", "wav", "gif", "pdf">>

\* the loop without the WAVE test at offset 8
SignatureMatches_riff_only(header, file_type) ==
    IF file_type = "wav"
    THEN StartsWith(header, BINARY_SIGNATURES[file_type][1])
    ELSE StartsWith(header, BINARY_SIGNATURES[file_type])

\* one turn of the loop over BINARY_SIGNATURES.items()
SignatureMatches(header, file_type) ==
    IF file_type = "wav"
    THEN LET riff_sig == BINARY_SIGNATURES[file_type][1]
             wave_sig == BINARY_SIGNATURES[file_type][2]
         IN  StartsWith(header, riff_sig) /\ Slice(header, 8, 12) = wave_sig
    ELSE StartsWith(header, BINARY_SIGNATURES[file_type])

\* the loop with its "return None" one level too deep: only the first entry
\* of the table is ever tried
RECURSIVE FirstSignature_first_entry_only(_, _)
FirstSignature_first_entry_only(header, order) ==
    IF order = <<>> THEN None
    ELSE IF SignatureMatches(header, Head(order)) THEN Head(order)
    ELSE None

RECURSIVE FirstSignature(_, _)
FirstSignature(header, order) ==
    IF order = <<>> THEN None
    ELSE IF SignatureMatches(header, Head(order)) THEN Head(order)
    ELSE FirstSignature(header, Tail(order))

HeaderBytes == 16

detect_by_signature(f) ==
    IF ~CanOpen(f) THEN None
    ELSE LET header == Read(f, HeaderBytes)
         IN  IF header = <<>> THEN None
             ELSE FirstSignature(header, SignatureOrder)

(***************************************************************************)
(* Extensions                                                              *)
(***************************************************************************)
\* the table without its .txt entry
EXTENSION_MAP_without_txt ==
    (<<46, 99, 115, 118>> :> "csv") @@
    (<<46, 116, 115, 118>> :> "csv") @@
    (<<46, 108, 111, 103>> :> "log") @@
    (<<46, 119, 97, 118>> :> "wav") @@
    (<<46, 112, 110, 103>> :> "png") @@
    (<<46, 106, 112, 103>> :> "jpeg") @@
    (<<46, 106, 112, 101, 103>> :> "jpeg") @@
    (<<46, 103, 105, 102>> :> "gif") @@
    (<<46, 112, 100, 102>> :> "pdf")

EXTENSION_MAP ==
    (<<46, 99, 115, 118>> :> "csv") @@
    (<<46, 116, 115, 118>> :> "csv") @@
    (<<46, 108, 111, 103>> :> "log") @@
    (<<46, 116, 120, 116>> :> "text") @@
    (<<46, 119, 97, 118>> :> "wav") @@
    (<<46, 112, 110, 103>> :> "png") @@
    (<<46, 106, 112, 103>> :> "jpeg") @@
    (<<46, 106, 112, 101, 103>> :> "jpeg") @@
    (<<46, 103, 105, 102>> :> "gif") @@
    (<<46, 112, 100, 102>> :> "pdf")

\* the lookup without .lower()
detect_by_extension_case_sensitive(f) ==
    LET ext == suffix(f)
    IN  IF ext \in DOMAIN EXTENSION_MAP THEN EXTENSION_MAP[ext] ELSE None


detect_by_extension(f) ==
    LET ext == Lower(suffix(f))
    IN  IF ext \in DOMAIN EXTENSION_MAP THEN EXTENSION_MAP[ext] ELSE None

(***************************************************************************)
(* Content analysis                                                        *)
(***************************************************************************)
\* default of the sample_lines parameter of both analyzers
DefaultSampleLines == 10

\* the loop counting the lines it keeps, not the lines it takes
SampleLines_skipping_blanks(f, sample_lines) ==
    LET text == TextOf(f)
        kept == SelectSeq([i \in 1..Len(text) |-> Strip(text[i])],
                          LAMBDA line : line # <<>>)
    IN  SubSeq(kept, 1, Min(sample_lines, Len(kept)))

\* the sampling loop shared by both analyzers:
\*   for i, line in enumerate(f):
\*       if i >= sample_lines: break
\*       line = line.strip()
\*       if line: lines.append(line)
SampleLines(f, sample_lines) ==
    LET text == TextOf(f)
        k == Min(sample_lines, Len(text))
    IN  SelectSeq([i \in 1..k |-> Strip(text[i])], LAMBDA line : line # <<>>)

\* the lines the sampling loop takes from the file: it leaves at the line of
\* index sample_lines, which it has taken and does not keep
LinesFetched(f, sample_lines) ==
    IF ~CanOpen(f) THEN 0 ELSE Min(sample_lines + 1, Len(TextOf(f)))

\* ',', '\t', ';', '|'
delimiters == <<44, 9, 59, 124>>

\* the verdict without the test on the average count
looks_like_csv_any_delimiter(f, sample_lines) ==
    IF ~CanOpen(f) THEN FALSE
    ELSE LET lines == SampleLines(f, sample_lines)
         IN  IF Len(lines) < 2 THEN FALSE
             ELSE LET counts(d) == [i \in 1..Len(lines) |-> Count(lines[i], d)]
                      delimiter_counts ==
                          {j \in 1..Len(delimiters) :
                              MaxOf(counts(delimiters[j])) > 0}
                  IN  delimiter_counts # {}

looks_like_csv(f, sample_lines) ==
    IF ~CanOpen(f) THEN FALSE
    ELSE LET lines == SampleLines(f, sample_lines)
         IN  IF Len(lines) < 2 THEN FALSE
             ELSE LET counts(d) == [i \in 1..Len(lines) |-> Count(lines[i], d)]
                      \* avg_count >= 1 with avg_count = sum(counts) / len(counts)
                      delimiter_counts ==
                          {j \in 1..Len(delimiters) :
                              /\ MaxOf(counts(delimiters[j])) > 0
                              /\ Sum(counts(delimiters[j])) >= Len(lines)}
                  IN  delimiter_counts # {}

IsWord(c) == c \in 48..57 \/ c \in 65..90 \/ c \in 97..122 \/ c = 95

\* character classes of the timestamp pattern
Digits == 48..57
Seps == {45, 47}
Words == (48..57) \cup (65..90) \cup (97..122) \cup {95}
Colon == {58}

\* the string has, from offset o on, one character of each class in turn
MatchAt(s, o, classes) ==
    /\ Len(s) >= o + Len(classes)
    /\ \A i \in 1..Len(classes) : s[o + i] \in classes[i]

Rep(class, n) == [i \in 1..n |-> class]

\* \d{4}[-/]\d{2}[-/]\d{2}
YmdShape == Rep(Digits, 4) \o <<Seps>> \o Rep(Digits, 2) \o <<Seps>> \o Rep(Digits, 2)
\* \d{2}[-/]\d{2}[-/]\d{4}
MdyShape == Rep(Digits, 2) \o <<Seps>> \o Rep(Digits, 2) \o <<Seps>> \o Rep(Digits, 4)
\* \s+\d{1,2}\s+\d{2}:\d{2}:\d{2} with a and b blanks and d day digits
SyslogShape(a, d, b) ==
    Rep(Whitespace, a) \o Rep(Digits, d) \o Rep(Whitespace, b)
        \o Rep(Digits, 2) \o <<Colon>> \o Rep(Digits, 2) \o <<Colon>>
        \o Rep(Digits, 2)

\* timestamp_pattern.search(line): each alternative is anchored at the start
\* of the line and may follow one '['
timestamp_pattern(line) ==
    \E o \in {0, 1} :
        /\ o = 1 => (line # <<>> /\ line[1] = 91)
        /\ \/ MatchAt(line, o, YmdShape)
           \/ MatchAt(line, o, MdyShape)
           \/ /\ MatchAt(line, o, Rep(Words, 3))
              /\ \E d \in 1..2 :
                 \E a \in 1..(Len(line) - o - 12 - d) :
                     \E b \in 1..(Len(line) - o - 11 - d - a) :
                         MatchAt(line, o + 3, SyslogShape(a, d, b))

\* ERROR WARN WARNING INFO DEBUG TRACE FATAL CRITICAL
LogLevels ==
    {<<69, 82, 82, 79, 82>>, <<87, 65, 82, 78>>, <<87, 65, 82, 78, 73, 78, 71>>,
     <<73, 78, 70, 79>>, <<68, 69, 66, 85, 71>>, <<84, 82, 65, 67, 69>>,
     <<70, 65, 84, 65, 76>>, <<67, 82, 73, 84, 73, 67, 65, 76>>}

\* log_level_pattern.search(line): a keyword, in any case, between two word
\* boundaries, anywhere in the line
log_level_pattern(line) ==
    \E i \in 1..Len(line), kw \in LogLevels :
        /\ i + Len(kw) - 1 <= Len(line)
        /\ Lower(SubSeq(line, i, i + Len(kw) - 1)) = Lower(kw)
        /\ i = 1 \/ ~IsWord(line[i - 1])
        /\ i + Len(kw) - 1 = Len(line) \/ ~IsWord(line[i + Len(kw)])
\* the log analyzer with the two-line minimum of the tabular analyzer
looks_like_log_two_lines(f, sample_lines) ==
    IF ~CanOpen(f) THEN FALSE
    ELSE LET lines == SampleLines(f, sample_lines)
         IN  IF Len(lines) < 2 THEN FALSE
             ELSE \/ 2 * Cardinality({i \in 1..Len(lines) :
                             timestamp_pattern(lines[i])}) >= Len(lines)
                  \/ 2 * Cardinality({i \in 1..Len(lines) :
                             log_level_pattern(lines[i])}) >= Len(lines)


\* the verdict with one counter for both pattern families
looks_like_log_one_counter(f, sample_lines) ==
    IF ~CanOpen(f) THEN FALSE
    ELSE LET lines == SampleLines(f, sample_lines)
         IN  IF lines = <<>> THEN FALSE
             ELSE LET matches ==
                          Cardinality({i \in 1..Len(lines) :
                              \/ timestamp_pattern(lines[i])
                              \/ log_level_pattern(lines[i])})
                  IN  2 * matches >= Len(lines)

looks_like_log(f, sample_lines) ==
    IF ~CanOpen(f) THEN FALSE
    ELSE LET lines == SampleLines(f, sample_lines)
         IN  IF lines = <<>> THEN FALSE
             ELSE LET timestamp_matches ==
                          Cardinality({i \in 1..Len(lines) : timestamp_pattern(lines[i])})
                      log_level_matches ==
                          Cardinality({i \in 1..Len(lines) : log_level_pattern(lines[i])})
                      \* matches >= threshold with threshold = len(lines) * 0.5
                  IN  \/ 2 * timestamp_matches >= Len(lines)
                      \/ 2 * log_level_matches >= Len(lines)

(***************************************************************************)
(* Confidence-based detection.  A result carries the tag, the confidence   *)
(* and the strategy functions that were called, in call order.             *)
(***************************************************************************)
Scored(file_type, confidence, calls) ==
    [tag |-> file_type, conf |-> confidence, calls |-> calls]

\* Strategy 4 without its "if ext_type:" guard
extension_alone_unguarded(ext_type, calls) == Scored(ext_type, 50, calls)

\* Strategy 4 scored below the facade's default threshold
extension_alone_at_40(ext_type, calls) ==
    IF ext_type # None THEN Scored(ext_type, 40, calls)
    ELSE Scored(None, 0, calls)

\* Strategy 4, extension alone, and the final return
extension_alone(ext_type, calls) ==
    IF ext_type # None THEN Scored(ext_type, 50, calls)
    ELSE Scored(None, 0, calls)

\* Strategy 4 placed before Strategy 3: the extension outranks the content
content_alone_after_extension(f, ext_type, calls) ==
    IF ext_type # None THEN Scored(ext_type, 50, calls)
    ELSE IF looks_like_csv(f, DefaultSampleLines)
    THEN Scored("csv", 60, calls \o <<"looks_like_csv">>)
    ELSE IF looks_like_log(f, DefaultSampleLines)
    THEN Scored("log", 60, calls \o <<"looks_like_csv", "looks_like_log">>)
    ELSE Scored(None, 0, calls \o <<"looks_like_csv", "looks_like_log">>)

\* Strategy 3 with the log analyzer asked before the tabular one
content_alone_log_first(f, ext_type, calls) ==
    IF looks_like_log(f, DefaultSampleLines)
    THEN Scored("log", 60, calls \o <<"looks_like_log">>)
    ELSE IF looks_like_csv(f, DefaultSampleLines)
    THEN Scored("csv", 60, calls \o <<"looks_like_log", "looks_like_csv">>)
    ELSE extension_alone(ext_type, calls \o <<"looks_like_log", "looks_like_csv">>)

\* Strategy 3, content analysis whatever the extension: tabular, then log
content_alone(f, ext_type, calls) ==
    IF looks_like_csv(f, DefaultSampleLines)
    THEN Scored("csv", 60, calls \o <<"looks_like_csv">>)
    ELSE IF looks_like_log(f, DefaultSampleLines)
    THEN Scored("log", 60, calls \o <<"looks_like_csv", "looks_like_log">>)
    ELSE extension_alone(ext_type, calls \o <<"looks_like_csv", "looks_like_log">>)

\* Strategy 2 with the tabular analyzer pasted into the log branch
extension_and_content_pasted(f, calls) ==
    LET ext_type == detect_by_extension(f)
        c2 == calls \o <<"detect_by_extension">>
        c3 == c2 \o (IF ext_type = "csv" THEN <<"looks_like_csv">> ELSE <<>>)
        c4 == c3 \o (IF ext_type = "log" THEN <<"looks_like_csv">> ELSE <<>>)
    IN  IF ext_type = "csv" /\ looks_like_csv(f, DefaultSampleLines)
        THEN Scored("csv", 80, c3)
        ELSE IF ext_type = "log" /\ looks_like_csv(f, DefaultSampleLines)
        THEN Scored("log", 80, c4)
        ELSE content_alone(f, ext_type, c4)

\* Strategy 2, the extension and the analyzer of the extension's own type
extension_and_content(f, calls) ==
    LET ext_type == detect_by_extension(f)
        c2 == calls \o <<"detect_by_extension">>
        c3 == c2 \o (IF ext_type = "csv" THEN <<"looks_like_csv">> ELSE <<>>)
        c4 == c3 \o (IF ext_type = "log" THEN <<"looks_like_log">> ELSE <<>>)
    IN  IF ext_type = "csv" /\ looks_like_csv(f, DefaultSampleLines)
        THEN Scored("csv", 80, c3)
        ELSE IF ext_type = "log" /\ looks_like_log(f, DefaultSampleLines)
        THEN Scored("log", 80, c4)
        ELSE content_alone(f, ext_type, c4)

\* Strategy 1, the binary signature, then the rest of the ladder
detect_with_confidence(f) ==
    LET sig_type == detect_by_signature(f)
    IN  IF sig_type # None THEN Scored(sig_type, 100, <<"detect_by_signature">>)
        ELSE extension_and_content(f, <<"detect_by_signature">>)

(***************************************************************************)
(* All candidates: the dict is kept as the sequence of its items in        *)
(* insertion order                                                         *)
(***************************************************************************)
Keys(d) == {d[i][1] : i \in 1..Len(d)}

\* d[k]
Get(d, k) == LET i == CHOOSE i \in 1..Len(d) : d[i][1] = k IN d[i][2]

\* d[k] = v: a new key goes last, a known key keeps its place
Put(d, k, v) ==
    IF k \in Keys(d)
    THEN [i \in 1..Len(d) |-> IF d[i][1] = k THEN <<k, v>> ELSE d[i]]
    ELSE Append(d, <<k, v>>)

\* the candidates with a return right after a signature match
detect_all_possible_types_short_circuit(f) ==
    LET sig_type == detect_by_signature(f)
        ext_type == detect_by_extension(f)
        r2 == IF ext_type # None THEN Put(<<>>, ext_type, 50) ELSE <<>>
        r3 == IF looks_like_csv(f, DefaultSampleLines)
              THEN IF "csv" \in Keys(r2)
                   THEN Put(r2, "csv", MaxOf(<<Get(r2, "csv"), 80>>))
                   ELSE Put(r2, "csv", 60)
              ELSE r2
        r4 == IF looks_like_log(f, DefaultSampleLines)
              THEN IF "log" \in Keys(r3)
                   THEN Put(r3, "log", MaxOf(<<Get(r3, "log"), 80>>))
                   ELSE Put(r3, "log", 60)
              ELSE r3
    IN  IF sig_type # None THEN Put(<<>>, sig_type, 100)
        ELSE IF ext_type = "text" /\ "text" \in Keys(r4) /\ Len(r4) = 1
        THEN Put(r4, "text", 40)
        ELSE r4

detect_all_possible_types(f) ==
    LET sig_type == detect_by_signature(f)
        r1 == IF sig_type # None THEN Put(<<>>, sig_type, 100) ELSE <<>>
        ext_type == detect_by_extension(f)
        r2 == IF ext_type # None /\ ext_type \notin Keys(r1)
              THEN Put(r1, ext_type, 50) ELSE r1
        r3 == IF looks_like_csv(f, DefaultSampleLines)
              THEN IF "csv" \in Keys(r2)
                   THEN Put(r2, "csv", MaxOf(<<Get(r2, "csv"), 80>>))
                   ELSE Put(r2, "csv", 60)
              ELSE r2
        r4 == IF looks_like_log(f, DefaultSampleLines)
              THEN IF "log" \in Keys(r3)
                   THEN Put(r3, "log", MaxOf(<<Get(r3, "log"), 80>>))
                   ELSE Put(r3, "log", 60)
              ELSE r3
    IN  IF ext_type = "text" /\ "text" \in Keys(r4) /\ Len(r4) = 1
        THEN Put(r4, "text", 40)
        ELSE r4

\* default of the confidence_threshold parameter (0.15)
DefaultThreshold == 15
\* sorted() without reverse=True: the lowest confidence first
RECURSIVE SortedItems_ascending(_)
SortedItems_ascending(d) ==
    IF d = <<>> THEN <<>>
    ELSE LET i == CHOOSE i \in 1..Len(d) :
                      /\ \A j \in 1..Len(d) : d[j][2] >= d[i][2]
                      /\ \A j \in 1..(i - 1) : d[j][2] > d[i][2]
         IN  <<d[i]>> \o SortedItems_ascending([j \in 1..(Len(d) - 1) |->
                                         IF j < i THEN d[j] ELSE d[j + 1]])


\* sorted(items, key=confidence, reverse=True): stable, so items of equal
\* confidence keep their insertion order
RECURSIVE SortedItems(_)
SortedItems(d) ==
    IF d = <<>> THEN <<>>
    ELSE LET i == CHOOSE i \in 1..Len(d) :
                      /\ \A j \in 1..Len(d) : d[j][2] <= d[i][2]
                      /\ \A j \in 1..(i - 1) : d[j][2] < d[i][2]
         IN  <<d[i]>> \o SortedItems([j \in 1..(Len(d) - 1) |->
                                         IF j < i THEN d[j] ELSE d[j + 1]])

\* the comparison of the top two with < for <=
TopTwoClose_strict(sorted_types, confidence_threshold) ==
    LET top_confidence == sorted_types[1][2]
        second_confidence == sorted_types[2][2]
    IN  top_confidence - second_confidence < confidence_threshold

\* ambiguous if the top two confidences are close
TopTwoClose(sorted_types, confidence_threshold) ==
    LET top_confidence == sorted_types[1][2]
        second_confidence == sorted_types[2][2]
    IN  top_confidence - second_confidence <= confidence_threshold

\* the function handing back its sorted list in place of the map
AmbiguityOf_returns_sorted(all_results, confidence_threshold) ==
    IF Len(all_results) < 2
    THEN [ambiguous |-> FALSE, results |-> all_results]
    ELSE [ambiguous |->
              TopTwoClose(SortedItems(all_results), confidence_threshold),
          results |-> SortedItems(all_results)]

\* the pair (is_ambiguous, all_results) for the map all_results
AmbiguityOf(all_results, confidence_threshold) ==
    IF Len(all_results) < 2
    THEN [ambiguous |-> FALSE, results |-> all_results]
    ELSE [ambiguous |->
              TopTwoClose(SortedItems(all_results), confidence_threshold),
          results |-> all_results]

is_detection_ambiguous(f, confidence_threshold) ==
    AmbiguityOf(detect_all_possible_types(f), confidence_threshold)

(***************************************************************************)
(* File handles.  The strategy functions that read the file open it in a   *)
(* with statement, once per call; detect_by_extension reads the name only. *)
(***************************************************************************)
Openers == {"detect_by_signature", "looks_like_csv", "looks_like_log"}

\* the function opening the file without a with statement
FileEvents_unclosed(f, call) ==
    IF call \notin Openers THEN <<>>
    ELSE IF CanOpen(f) THEN <<"open">>
    ELSE <<"open failed">>

\* what one call of a strategy function does to the file's handles; open()
\* raises on a file that cannot be read, and no handle exists then
FileEvents(f, call) ==
    IF call \notin Openers THEN <<>>
    ELSE IF CanOpen(f) THEN <<"open", "close">>
    ELSE <<"open failed">>

\* the handle events of a sequence of calls, in order
HandleEvents(f, calls) == Flatten([i \in 1..Len(calls) |-> FileEvents(f, calls[i])])

(***************************************************************************)
(* The facade (detector.py).  An outcome is a returned value or a raised   *)
(* exception: its class, the message it starts with, and the strategy      *)
(* functions called before the call ended.                                 *)
(***************************************************************************)
DefaultMinConfidence == 50

Returned(value, calls) ==
    [value |-> value, raised |-> None, message |-> None, calls |-> calls]

Raised(class, message, calls) ==
    [value |-> None, raised |-> class, message |-> message, calls |-> calls]

\* the two path checks in the other order
validate_path_file_check_first(f) ==
    IF ~is_file(f) THEN Raised("DetectionError", "Path is not a file", <<>>)
    ELSE IF ~exists(f) THEN Raised("FileNotFoundError", "File not found", <<>>)
    ELSE IF ~(st_size(f) >= 0)
    THEN Raised("PermissionError", "File is not readable", <<>>)
    ELSE Returned(None, <<>>)

\* the checks made before detection: nothing is raised when the path passes
validate_path(f) ==
    IF ~exists(f) THEN Raised("FileNotFoundError", "File not found", <<>>)
    ELSE IF ~is_file(f) THEN Raised("DetectionError", "Path is not a file", <<>>)
    ELSE IF ~(st_size(f) >= 0)
    THEN Raised("PermissionError", "File is not readable", <<>>)
    ELSE Returned(None, <<>>)

\* the threshold test with <= for <
check_detection_inclusive(d, min_confidence) ==
    IF d.tag = None
    THEN Raised("DetectionError", "Unable to detect file type", d.calls)
    ELSE IF d.conf <= min_confidence
    THEN Raised("DetectionError", "Detection confidence too low", d.calls)
    ELSE Returned(d.tag, d.calls)

\* the low-confidence failure raised as a class of its own
check_detection_own_class(d, min_confidence) ==
    IF d.tag = None
    THEN Raised("DetectionError", "Unable to detect file type", d.calls)
    ELSE IF d.conf < min_confidence
    THEN Raised("LowConfidenceError", "Detection confidence too low", d.calls)
    ELSE Returned(d.tag, d.calls)

\* the checks made on the scorer's result d
check_detection(d, min_confidence) ==
    IF d.tag = None
    THEN Raised("DetectionError", "Unable to detect file type", d.calls)
    ELSE IF d.conf < min_confidence
    THEN Raised("DetectionError", "Detection confidence too low", d.calls)
    ELSE Returned(d.tag, d.calls)

detect_file_type(f, min_confidence) ==
    LET v == validate_path(f)
    IN  IF v.raised # None THEN v
        ELSE check_detection(detect_with_confidence(f), min_confidence)

\* the list of is_supported_type
supported_types == {"csv", "log", "wav", "png", "jpeg", "gif", "pdf"}

\* file_type.lower() in supported_types; the tags of the detectors are
\* lower-case already
is_supported_type(file_type) == file_type \in supported_types

\* an except clause that names DetectionError alone
SafeCaught_detection_only == {"DetectionError"}

\* the exception classes the except clause of detect_file_type_safe names
SafeCaught == {"DetectionError", "FileNotFoundError", "PermissionError"}

detect_file_type_safe(f, default) ==
    LET r == detect_file_type(f, DefaultMinConfidence)
    IN  IF r.raised = None THEN r
        ELSE IF r.raised \in SafeCaught THEN Returned(default, r.calls)
        ELSE r

\* the dict get_detection_details starts from, and whether the call raised
NoDetails(f) ==
    [exists |-> exists(f), is_file |-> FALSE, readable |-> FALSE,
     file_size |-> 0, signature_type |-> None, extension_type |-> None,
     final_type |-> None, confidence |-> 0, error |-> None, raised |-> None]

\* the diagnostics without the is_file() check
get_detection_details_no_file_check(f) ==
    IF ~exists(f) THEN [NoDetails(f) EXCEPT !.error = "File not found"]
    ELSE LET d == detect_with_confidence(f)
         IN  [NoDetails(f) EXCEPT !.is_file = is_file(f),
                                  !.file_size = st_size(f),
                                  !.readable = TRUE,
                                  !.signature_type = detect_by_signature(f),
                                  !.extension_type = detect_by_extension(f),
                                  !.final_type = d.tag,
                                  !.confidence = d.conf]

\* stat() needs no read permission, and no strategy function raises: none of
\* the except clauses is ever entered
get_detection_details(f) ==
    IF ~exists(f) THEN [NoDetails(f) EXCEPT !.error = "File not found"]
    ELSE IF ~is_file(f) THEN [NoDetails(f) EXCEPT !.error = "Path is not a file"]
    ELSE LET d == detect_with_confidence(f)
         IN  [NoDetails(f) EXCEPT !.is_file = TRUE,
                                  !.file_size = st_size(f),
                                  !.readable = TRUE,
                                  !.signature_type = detect_by_signature(f),
                                  !.extension_type = detect_by_extension(f),
                                  !.final_type = d.tag,
                                  !.confidence = d.conf]

(***************************************************************************)
(* What the strategies have to go on in a file: the table entries its      *)
(* first bytes match, the tag of its lower-cased suffix, the verdict of    *)
(* each analyzer on its lines, and the scorer's result.  It is computed    *)
(* once, when the file is chosen, and never changes.                       *)
(***************************************************************************)
\* the bytes b hold the pattern p at offset off
PatternAt(b, off, p) ==
    Len(b) >= off + Len(p) /\ SubSeq(b, off + 1, off + Len(p)) = p

\* the first bytes of a regular file that can be read match the table's
\* entry for file_type: its pattern at offset 0 and, for wav, RIFF at offset 0
\* and WAVE at offset 8
MatchesEntry(f, file_type) ==
    /\ CanOpen(f)
    /\ IF file_type = "wav"
       THEN /\ PatternAt(Bytes(f), 0, BINARY_SIGNATURES.wav[1])
            /\ PatternAt(Bytes(f), 8, BINARY_SIGNATURES.wav[2])
       ELSE PatternAt(Bytes(f), 0, BINARY_SIGNATURES[file_type])

SignatureTags == DOMAIN BINARY_SIGNATURES

\* the tag the extension table gives the lower-cased suffix
SuffixTag(f) ==
    IF Lower(suffix(f)) \in DOMAIN EXTENSION_MAP
    THEN EXTENSION_MAP[Lower(suffix(f))] ELSE None

Observe(f) ==
    [sig  |-> {t \in SignatureTags : MatchesEntry(f, t)},
     ext  |-> SuffixTag(f),
     csv  |-> looks_like_csv(f, DefaultSampleLines),
     log  |-> looks_like_log(f, DefaultSampleLines),
     tag  |-> detect_with_confidence(f).tag,
     conf |-> detect_with_confidence(f).conf]

(***************************************************************************)
(* The plugin registry (data_alchemist/core/plugin_manager.py) and the     *)
(* convert pipeline (data_alchemist/cli.py).  A dict is kept as the        *)
(* sequence of its items in insertion order; a plugin is the record of the *)
(* properties the registry reads.                                          *)
(***************************************************************************)
\* the bound on the number of parsers registered since the last clear
MaxRegistrations == 3

CSVParser ==
    [parser_name |-> "CSV Parser",
     supported_formats |-> << <<46, 99, 115, 118>>, <<46, 116, 115, 118>> >>]

LogParser ==
    [parser_name |-> "Log Parser",
     supported_formats |-> << <<46, 108, 111, 103>>, <<46, 116, 120, 116>> >>]

\* the parser of the unit tests: the extensions of CSVParser, another name
MockCSVParser ==
    [parser_name |-> "Mock CSV Parser",
     supported_formats |-> << <<46, 99, 115, 118>>, <<46, 116, 115, 118>> >>]

\* a plugin that declares its one extension in upper case: ".CSV"
UpperCaseParser ==
    [parser_name |-> "Upper Case Parser",
     supported_formats |-> << <<46, 67, 83, 86>> >>]

\* the subclasses of BaseParser a caller registers
Parsers == {CSVParser, LogParser, MockCSVParser, UpperCaseParser}

\* an object that is no parser and no converter
NotAPlugin == [str |-> "This is not a parser"]

\* the None a lookup returns
NoParser == [parser_name |-> None, supported_formats |-> <<>>]

\* output formats "json" and "csv"
JSONConverter ==
    [converter_name |-> "JSON Converter", output_format |-> <<106, 115, 111, 110>>]

CSVConverter ==
    [converter_name |-> "CSV Converter", output_format |-> <<99, 115, 118>>]

Converters == {JSONConverter, CSVConverter}

NoConverter == [converter_name |-> None, output_format |-> <<>>]

\* PluginManager(): three empty registries
PluginManager == [parsers |-> <<>>, parser_instances |-> <<>>, converters |-> <<>>]

\* the loop without .lower()
RECURSIVE RegisterExtensions_as_declared(_, _, _)
RegisterExtensions_as_declared(parsers, parser, formats) ==
    IF formats = <<>> THEN parsers
    ELSE RegisterExtensions_as_declared(Put(parsers, Head(formats), parser),
                                        parser, Tail(formats))

\* the loop of register_parser over the extensions a parser declares
RECURSIVE RegisterExtensions(_, _, _)
RegisterExtensions(parsers, parser, formats) ==
    IF formats = <<>> THEN parsers
    ELSE LET ext_lower == Lower(Head(formats))
         IN  RegisterExtensions(Put(parsers, ext_lower, parser), parser,
                                Tail(formats))

\* the manager after register_parser(parser), and the exception it raised
register_parser(m, parser) ==
    IF parser \notin Parsers
    THEN [manager |-> m, raised |-> "TypeError"]
    ELSE [manager |->
              [m EXCEPT
                  !.parsers = RegisterExtensions(m.parsers, parser,
                                                 parser.supported_formats),
                  !.parser_instances =
                      Put(m.parser_instances, parser.parser_name, parser)],
          raised |-> None]

get_parser_for_extension(m, extension) ==
    LET ext_lower == Lower(extension)
    IN  IF ext_lower \in Keys(m.parsers) THEN Get(m.parsers, ext_lower)
        ELSE NoParser

\* list(self._parser_instances.keys())
list_parsers(m) ==
    [i \in 1..Len(m.parser_instances) |-> m.parser_instances[i][1]]

clear_parsers(m) == [m EXCEPT !.parsers = <<>>, !.parser_instances = <<>>]

register_converter(m, converter) ==
    IF converter \notin Converters
    THEN [manager |-> m, raised |-> "TypeError"]
    ELSE [manager |->
              [m EXCEPT !.converters =
                  Put(m.converters, Lower(converter.output_format), converter)],
          raised |-> None]

get_converter_for_format(m, output_format) ==
    LET format_lower == Lower(output_format)
    IN  IF format_lower \in Keys(m.converters)
        THEN Get(m.converters, format_lower)
        ELSE NoConverter

clear_converters(m) == [m EXCEPT !.converters = <<>>]

get_stats(m) ==
    [parsers              |-> Len(m.parser_instances),
     supported_extensions |-> Len(m.parsers),
     converters           |-> Len(m.converters),
     supported_formats    |-> Len(m.converters)]

\* the manager main() builds: the two parsers, no converter
CliManager ==
    register_parser(register_parser(PluginManager, CSVParser).manager,
                    LogParser).manager

\* what parser.parse and converter.convert do with the file is not part of
\* this model: each of them either returns or raises its error
Outcomes == {"returns", "raises"}

\* the exit code of execute_convert, the step it ended at, the tag it
\* detected and the parser it called
Exit(code, step, file_type, parser) ==
    [code |-> code, step |-> step, file_type |-> file_type, parser |-> parser]

\* steps 2 to 5: the parser of the path's suffix, the parse, the converter
\* of the output format, the conversion
execute_convert_steps(f, file_type, output_format, plugin_manager, behaviour) ==
    LET parser == get_parser_for_extension(plugin_manager, suffix(f))
        converter == get_converter_for_format(plugin_manager, output_format)
    IN  IF parser = NoParser THEN Exit(1, "parser", file_type, NoParser)
        ELSE IF behaviour.parse = "raises"
        THEN Exit(1, "parse", file_type, parser)
        ELSE IF converter = NoConverter THEN Exit(1, "converter", file_type, parser)
        ELSE IF behaviour.convert = "raises"
        THEN Exit(1, "convert", file_type, parser)
        ELSE Exit(0, "done", file_type, parser)

\* the path checks and step 1, detection at the default min_confidence; any
\* exception ends the pipeline with exit code 1
execute_convert(f, output_format, plugin_manager, behaviour) ==
    IF ~exists(f) THEN Exit(1, "exists", None, NoParser)
    ELSE IF ~is_file(f) THEN Exit(1, "is_file", None, NoParser)
    ELSE LET d == detect_file_type(f, DefaultMinConfidence)
         IN  IF d.raised # None THEN Exit(1, "detect", None, NoParser)
             ELSE execute_convert_steps(f, d.value, output_format,
                                        plugin_manager, behaviour)

(***************************************************************************)
(* The state machine: a file on disk and the outcome of the one call made  *)
(* on it.                                                                  *)
(***************************************************************************)
Idle == [op |-> "idle", arg |-> None, out |-> None]

\* thresholds a caller passes as min_confidence (hundredths)
MinConfidences == {50, 60, 100, 110}

\* defaults a caller passes to detect_file_type_safe
Defaults == {None, "unknown"}

\* a file on disk and the manager of main(); history holds the parsers
\* registered since the last clear_parsers, oldest first
Init ==
    /\ file \in Files
    /\ seen = Observe(file)
    /\ res = Idle
    /\ manager = CliManager
    /\ history = <<CSVParser, LogParser>>

Call_detect_with_confidence ==
    /\ res.op = "idle"
    /\ res' = [op |-> "detect_with_confidence", arg |-> None,
               out |-> detect_with_confidence(file)]
    /\ UNCHANGED <<file, seen, manager, history>>

Call_detect_all_possible_types ==
    /\ res.op = "idle"
    /\ res' = [op |-> "detect_all_possible_types", arg |-> None,
               out |-> detect_all_possible_types(file)]
    /\ UNCHANGED <<file, seen, manager, history>>

Call_detect_file_type ==
    /\ res.op = "idle"
    /\ \E min_confidence \in MinConfidences :
           res' = [op |-> "detect_file_type", arg |-> min_confidence,
                   out |-> detect_file_type(file, min_confidence)]
    /\ UNCHANGED <<file, seen, manager, history>>

Call_detect_file_type_safe ==
    /\ res.op = "idle"
    /\ \E default \in Defaults :
           res' = [op |-> "detect_file_type_safe", arg |-> default,
                   out |-> detect_file_type_safe(file, default)]
    /\ UNCHANGED <<file, seen, manager, history>>

\* thresholds a caller passes as confidence_threshold (hundredths); each
\* compares with every gap between two confidences as its float does
Thresholds == {0, DefaultThreshold, 25}

Call_get_detection_details ==
    /\ res.op = "idle"
    /\ res' = [op |-> "get_detection_details", arg |-> None,
               out |-> get_detection_details(file)]
    /\ UNCHANGED <<file, seen, manager, history>>

Call_is_detection_ambiguous ==
    /\ res.op = "idle"
    /\ \E confidence_threshold \in Thresholds :
           res' = [op |-> "is_detection_ambiguous", arg |-> confidence_threshold,
                   out |-> is_detection_ambiguous(file, confidence_threshold)]
    /\ UNCHANGED <<file, seen, manager, history>>

\* values a caller passes as sample_lines
SampleSizes == {1, 2, DefaultSampleLines}

\* the proposal and the number of bytes read for it
Call_detect_by_signature ==
    /\ res.op = "idle"
    /\ res' = [op |-> "detect_by_signature", arg |-> None,
               out |-> [value |-> detect_by_signature(file),
                        bytes_read |-> IF CanOpen(file)
                                       THEN Len(Read(file, HeaderBytes)) ELSE 0]]
    /\ UNCHANGED <<file, seen, manager, history>>

Call_detect_by_extension ==
    /\ res.op = "idle"
    /\ res' = [op |-> "detect_by_extension", arg |-> None,
               out |-> detect_by_extension(file)]
    /\ UNCHANGED <<file, seen, manager, history>>

\* the verdict and the number of lines taken from the file for it
Call_looks_like_csv ==
    /\ res.op = "idle"
    /\ \E sample_lines \in SampleSizes :
           res' = [op |-> "looks_like_csv", arg |-> sample_lines,
                   out |-> [value |-> looks_like_csv(file, sample_lines),
                            fetched |-> LinesFetched(file, sample_lines)]]
    /\ UNCHANGED <<file, seen, manager, history>>

Call_looks_like_log ==
    /\ res.op = "idle"
    /\ \E sample_lines \in SampleSizes :
           res' = [op |-> "looks_like_log", arg |-> sample_lines,
                   out |-> [value |-> looks_like_log(file, sample_lines),
                            fetched |-> LinesFetched(file, sample_lines)]]
    /\ UNCHANGED <<file, seen, manager, history>>

\* the values of --format: "json", "CSV"
OutputFormats == {<<106, 115, 111, 110>>, <<67, 83, 86>>}

\* the calls that configure or query the manager
RegistryOps ==
    {"register_parser", "clear_parsers", "register_converter",
     "clear_converters", "get_parser_for_extension", "list_parsers",
     "get_stats"}

\* the pipeline runs on the file with the manager as it stands, as the
\* first call on the file or after a call on the manager
Call_execute_convert ==
    /\ res.op \in {"idle"} \cup RegistryOps
    /\ \E output_format \in OutputFormats :
       \E behaviour \in [parse : Outcomes, convert : Outcomes] :
           res' = [op |-> "execute_convert", arg |-> output_format,
                   out |-> execute_convert(file, output_format, manager,
                                           behaviour)]
    /\ UNCHANGED <<file, seen, manager, history>>

Next ==
    \/ Call_detect_by_signature
    \/ Call_detect_by_extension
    \/ Call_looks_like_csv
    \/ Call_looks_like_log
    \/ Call_detect_with_confidence
    \/ Call_detect_all_possible_types
    \/ Call_detect_file_type
    \/ Call_detect_file_type_safe
    \/ Call_get_detection_details
    \/ Call_is_detection_ambiguous
    \/ Call_execute_convert

Spec == Init /\ [][Next]_vars

(***************************************************************************)
(* The registry under registrations and clears: a manager that starts      *)
(* empty, and one of two files for the pipeline.                           *)
(***************************************************************************)
\* the PNG signature under the name d.csv
PngNamedCsv ==
    [name |-> <<100, 46, 99, 115, 118>>, kind |-> "file", readable |-> TRUE,
     lines |-> PngLead]

\* two lines "a,b,c" under the name d.log
CsvNamedLog ==
    [name |-> <<100, 46, 108, 111, 103>>, kind |-> "file", readable |-> TRUE,
     lines |-> <<Line(<<97, 44, 98, 44, 99>>, LF),
                 Line(<<97, 44, 98, 44, 99>>, LF)>>]

ConvertFiles == {PngNamedCsv, CsvNamedLog}

RegistryInit ==
    /\ file \in ConvertFiles
    /\ seen = Observe(file)
    /\ res = Idle
    /\ manager = PluginManager
    /\ history = <<>>

\* the extensions a caller asks for: .csv .CSV .tsv .txt .xyz
QueryExtensions ==
    {<<46, 99, 115, 118>>, <<46, 67, 83, 86>>, <<46, 116, 115, 118>>,
     <<46, 116, 120, 116>>, <<46, 120, 121, 122>>}

Call_register_parser ==
    /\ Len(history) < MaxRegistrations
    /\ \E parser \in Parsers \cup {NotAPlugin} :
           LET r == register_parser(manager, parser)
           IN  /\ manager' = r.manager
               /\ history' = IF r.raised = None THEN Append(history, parser)
                              ELSE history
               /\ res' = [op |-> "register_parser", arg |-> parser,
                          out |-> r.raised]
    /\ UNCHANGED <<file, seen>>

Call_clear_parsers ==
    /\ manager' = clear_parsers(manager)
    /\ history' = <<>>
    /\ res' = [op |-> "clear_parsers", arg |-> None, out |-> None]
    /\ UNCHANGED <<file, seen>>

Call_register_converter ==
    /\ \E converter \in Converters \cup {NotAPlugin} :
           LET r == register_converter(manager, converter)
           IN  /\ manager' = r.manager
               /\ res' = [op |-> "register_converter", arg |-> converter,
                          out |-> r.raised]
    /\ UNCHANGED <<file, seen, history>>

Call_clear_converters ==
    /\ manager' = clear_converters(manager)
    /\ res' = [op |-> "clear_converters", arg |-> None, out |-> None]
    /\ UNCHANGED <<file, seen, history>>

Call_get_parser_for_extension ==
    /\ \E extension \in QueryExtensions :
           res' = [op |-> "get_parser_for_extension", arg |-> extension,
                   out |-> get_parser_for_extension(manager, extension)]
    /\ UNCHANGED <<file, seen, manager, history>>

Call_list_parsers ==
    /\ res' = [op |-> "list_parsers", arg |-> None, out |-> list_parsers(manager)]
    /\ UNCHANGED <<file, seen, manager, history>>

Call_get_stats ==
    /\ res' = [op |-> "get_stats", arg |-> None, out |-> get_stats(manager)]
    /\ UNCHANGED <<file, seen, manager, history>>

RegistryNext ==
    \/ Call_register_parser
    \/ Call_clear_parsers
    \/ Call_register_converter
    \/ Call_clear_converters
    \/ Call_get_parser_for_extension
    \/ Call_list_parsers
    \/ Call_get_stats
    \/ Call_execute_convert

RegistrySpec == RegistryInit /\ [][RegistryNext]_vars

(***************************************************************************)
(* Properties of the scorer                                                *)
(***************************************************************************)
NoSignature == seen.sig = {}

\* the extension's own analyzer agreed with the extension
OwnAnalyzerAgrees ==
    \/ seen.ext = "csv" /\ seen.csv
    \/ seen.ext = "log" /\ seen.log

Scorer == res.op = "detect_with_confidence"
Facade == res.op = "detect_file_type"

\* C1: signature precedence.  For a file whose first bytes match an entry of
\* the signature table, detect_with_confidence returns that entry's tag with
\* confidence 1.0 whatever the extension and the analyzers say, and
\* detect_file_type returns that tag for every min_confidence <= 1.0.
C1_SignaturePrecedence ==
    \A t \in seen.sig :
        /\ Scorer => res.out.tag = t /\ res.out.conf = 100
        /\ (Facade /\ res.arg <= 100) =>
               res.out.raised = None /\ res.out.value = t

\* a matched signature wins over a .log name whose log analyzer agrees, at
\* the threshold 1.0
C1_Witness ==
    /\ Facade /\ res.arg = 100
    /\ \E t \in seen.sig : res.out.value = t
    /\ seen.ext = "log" /\ seen.log

\* C2: every confidence of detect_with_confidence and of the map of
\* detect_all_possible_types lies in [0, 1], and detect_with_confidence
\* returns the tag None exactly when it returns confidence 0.
C2_ConfidenceRange ==
    /\ Scorer =>
           /\ res.out.conf \in 0..100
           /\ res.out.tag = None <=> res.out.conf = 0
    /\ res.op = "detect_all_possible_types" =>
           \A i \in 1..Len(res.out) : res.out[i][2] \in 0..100

\* a file with content and no recognisable type
C2_Witness ==
    /\ Scorer /\ res.out.tag = None /\ res.out.conf = 0
    /\ CanOpen(file) /\ file.lines # <<>>

\* C3: with no signature, an extension whose tag has an analyzer (csv, log)
\* and that analyzer agreeing, the result is (that tag, 0.8) whatever the
\* other analyzer reports.
C3_ExtensionPlusContent ==
    (Scorer /\ NoSignature /\ OwnAnalyzerAgrees) =>
        /\ res.out.tag = seen.ext
        /\ res.out.conf = 80

\* a .log file that satisfies the log analyzer and the tabular analyzer
C3_Witness ==
    /\ Scorer /\ NoSignature
    /\ seen.ext = "log" /\ seen.log /\ seen.csv
    /\ res.out.tag = "log" /\ res.out.conf = 80

\* the last n calls of a result
LastCalls(out, n) == SubSeq(out.calls, Len(out.calls) - n + 1, Len(out.calls))

\* C4: with no signature and the extension's own analyzer not agreeing, the
\* analyzers run in the order tabular, log, and the first one that agrees
\* gives (its tag, 0.6), whatever the extension.
C4_ContentOutranksExtension ==
    (Scorer /\ NoSignature /\ ~OwnAnalyzerAgrees
        /\ (seen.csv \/ seen.log)) =>
        /\ res.out.conf = 60
        /\ seen.csv =>
               /\ res.out.tag = "csv"
               /\ LastCalls(res.out, 1) = <<"looks_like_csv">>
        /\ ~seen.csv =>
               /\ res.out.tag = "log"
               /\ LastCalls(res.out, 2) = <<"looks_like_csv", "looks_like_log">>

\* a .csv file that fails the tabular analyzer and passes the log analyzer
C4_Witness ==
    /\ Scorer /\ NoSignature
    /\ seen.ext = "csv" /\ ~seen.csv /\ seen.log
    /\ res.out.tag = "log" /\ res.out.conf = 60

\* C5: with no signature and no analyzer agreeing, the result is (the tag of
\* the lower-cased suffix, 0.5) when the extension table has it and
\* (None, 0.0) otherwise; the confidence is always 1.0, 0.8, 0.6, 0.5 or 0.0.
C5_BottomOfLadder ==
    Scorer =>
        /\ res.out.conf \in {100, 80, 60, 50, 0}
        /\ (NoSignature /\ ~seen.csv /\ ~seen.log) =>
               IF seen.ext # None
               THEN res.out.tag = seen.ext /\ res.out.conf = 50
               ELSE res.out.tag = None /\ res.out.conf = 0

\* an upper-case suffix on content that no analyzer accepts
C5_Witness ==
    /\ Scorer /\ NoSignature /\ CanOpen(file) /\ file.lines # <<>>
    /\ ~seen.csv /\ ~seen.log
    /\ suffix(file) # Lower(suffix(file))
    /\ res.out.tag = "csv" /\ res.out.conf = 50

(***************************************************************************)
(* Properties of the facade                                                *)
(***************************************************************************)
Safe == res.op = "detect_file_type_safe"

\* the scorer ran on the file and found no tag
Undetermined == is_file(file) /\ seen.tag = None

\* the scorer ran on the file and found a tag with a confidence below m
BelowThreshold(m) == is_file(file) /\ seen.tag # None /\ seen.conf < m

LowConfidenceError(out) ==
    out.raised = "DetectionError" /\ out.message = "Detection confidence too low"

\* C6: detect_file_type fails with the low-confidence error exactly when the
\* scorer returned a tag whose confidence is strictly below min_confidence; a
\* confidence equal to min_confidence succeeds and returns the tag.
C6_StrictThreshold ==
    Facade =>
        /\ LowConfidenceError(res.out) <=> BelowThreshold(res.arg)
        /\ (is_file(file) /\ seen.tag # None /\ seen.conf = res.arg) =>
               res.out.raised = None /\ res.out.value = seen.tag

\* an extension-only result, 0.5, at the default threshold 0.5
C6_Witness ==
    /\ Facade /\ res.arg = DefaultMinConfidence
    /\ is_file(file) /\ seen.ext # None /\ seen.conf = 50
    /\ res.out.raised = None /\ res.out.value = seen.ext

\* C7: a path that does not exist fails with FileNotFoundError, an existing
\* path that is not a regular file fails with the not-a-file DetectionError,
\* and in both cases no strategy function has been called.
C7_PreconditionOrder ==
    Facade =>
        /\ file.kind = "missing" =>
               /\ res.out.raised = "FileNotFoundError"
               /\ res.out.calls = <<>>
        /\ file.kind = "dir" =>
               /\ res.out.raised = "DetectionError"
               /\ res.out.message = "Path is not a file"
               /\ res.out.calls = <<>>

\* a missing path, which is no regular file either
C7_Witness ==
    /\ Facade /\ file.kind = "missing" /\ ~is_file(file)
    /\ res.out.raised = "FileNotFoundError" /\ res.out.calls = <<>>

\* C8: detect_file_type fails with PermissionError whenever the path is a
\* regular file whose bytes cannot be read, and so returns no tag for it.
C8_UnreadableRaises ==
    (Facade /\ is_file(file) /\ ~file.readable) =>
        res.out.raised = "PermissionError"

\* the class detect_file_type raises when the scorer found no tag
UndeterminedClass ==
    check_detection(Scored(None, 0, <<>>), DefaultMinConfidence).raised

\* C9 as stated: the low-confidence failure is of another error kind than
\* the undetermined failure.
C9_DistinctErrorKinds ==
    (Facade /\ BelowThreshold(res.arg)) =>
        res.out.raised # UndeterminedClass

\* C9 as amended: both failures are raised as DetectionError and differ in
\* their message alone.
C9_SameKindDistinctMessage ==
    Facade =>
        /\ Undetermined =>
               /\ res.out.raised = "DetectionError"
               /\ res.out.message = "Unable to detect file type"
        /\ BelowThreshold(res.arg) =>
               /\ res.out.raised = "DetectionError"
               /\ res.out.message = "Detection confidence too low"

\* a tag found by extension alone, refused at the threshold 0.6
C9_Witness ==
    /\ Facade /\ res.arg = 60 /\ BelowThreshold(res.arg)
    /\ seen.conf = 50
    /\ res.out.raised = "DetectionError"

Diagnostics == res.op = "get_detection_details"

\* C11: get_detection_details never raises; for a missing path or a path
\* that is no regular file it returns with error set, final_type None and
\* confidence 0.0; for a regular file final_type and confidence are the
\* scorer's result, signature_type is the entry of the signature table the
\* file matches and extension_type is the tag of its lower-cased suffix.
C11_DiagnosticsNeverRaise ==
    Diagnostics =>
        /\ res.out.raised = None
        /\ ~is_file(file) =>
               /\ res.out.error # None
               /\ res.out.final_type = None
               /\ res.out.confidence = 0
        /\ is_file(file) =>
               /\ res.out.final_type = seen.tag
               /\ res.out.confidence = seen.conf
               /\ res.out.extension_type = seen.ext
               /\ IF seen.sig = {} THEN res.out.signature_type = None
                  ELSE res.out.signature_type \in seen.sig

\* a directory whose name ends in .csv
C11_Witness ==
    /\ Diagnostics /\ file.kind = "dir" /\ seen.ext = "csv"
    /\ res.out.error = "Path is not a file" /\ res.out.final_type = None

Candidates == res.op = "detect_all_possible_types"

\* the tags a file can be given
Tags == {"csv", "log", "text", "wav", "png", "jpeg", "gif", "pdf"}

\* the analyzer of tag t reports true on the file
AnalyzerAgrees(t) == (t = "csv" /\ seen.csv) \/ (t = "log" /\ seen.log)

\* what the strategies contribute to tag t: 1.0 from the signature, 0.5 from
\* the extension, 0.6 from the tag's analyzer, 0.8 from extension and analyzer
Contributions(t) ==
    (IF t \in seen.sig THEN {100} ELSE {})
        \cup (IF seen.ext = t THEN {50} ELSE {})
        \cup (IF AnalyzerAgrees(t) THEN {60} ELSE {})
        \cup (IF seen.ext = t /\ AnalyzerAgrees(t) THEN {80} ELSE {})

Highest(S) == CHOOSE x \in S : \A y \in S : y <= x

\* every tag with a contribution has exactly one entry, and no other tag has
HasEveryProposal(d) ==
    /\ Keys(d) = {t \in Tags : Contributions(t) # {}}
    /\ Cardinality(Keys(d)) = Len(d)

\* C12 as stated: every strategy's proposal is in the map, once per tag, and
\* a tag's confidence is the highest of its contributions; a tag that the
\* extension alone proposes carries 0.5.
C12_MaxOfContributions ==
    Candidates =>
        /\ HasEveryProposal(res.out)
        /\ \A t \in Keys(res.out) :
               Get(res.out, t) = Highest(Contributions(t))

\* the tag text is the only entry of the map
TextAlone(d) == Keys(d) = {"text"}

\* C12 as amended: as stated, except that the tag text carries 0.4 when it
\* is the only entry of the map.
C12_MaxOfContributionsButTextAlone ==
    Candidates =>
        /\ HasEveryProposal(res.out)
        /\ \A t \in Keys(res.out) :
               Get(res.out, t) =
                   IF TextAlone(res.out) THEN 40
                   ELSE Highest(Contributions(t))

\* a file with a signature, a .log name and tabular lines: three entries
C12_Witness ==
    /\ Candidates /\ seen.sig # {} /\ seen.ext = "log" /\ seen.csv /\ ~seen.log
    /\ Len(res.out) = 3
    /\ Get(res.out, "csv") = 60 /\ Get(res.out, "log") = 50

Ambiguity == res.op = "is_detection_ambiguous"

\* the confidences of a map, highest first
RECURSIVE Descending(_)
Descending(B) ==
    IF B = EmptyBag THEN <<>>
    ELSE LET x == Highest(BagToSet(B))
         IN  <<x>> \o Descending(B (-) SetToBag({x}))

\* the confidences of a map, one per entry
Confidences(d) ==
    LET n(x) == Cardinality({i \in 1..Len(d) : d[i][2] = x})
    IN  Descending([x \in {d[i][2] : i \in 1..Len(d)} |-> n(x)])

\* C13: is_detection_ambiguous returns true exactly when the map of
\* detect_all_possible_types has two or more tags and its highest confidence
\* exceeds its second highest by at most confidence_threshold; with no tag
\* or one tag it returns false at every threshold.
C13_AmbiguousIffCloseTopTwo ==
    Ambiguity =>
        LET d == detect_all_possible_types(file)
            c == Confidences(d)
        IN  /\ res.out.ambiguous <=>
                   (Cardinality(Keys(d)) >= 2 /\ c[1] - c[2] <= res.arg)
            /\ Cardinality(Keys(d)) < 2 => ~res.out.ambiguous

\* two analyzers agree on a file with no other proposal, at the threshold 0
C13_Witness ==
    /\ Ambiguity /\ res.arg = 0
    /\ NoSignature /\ seen.ext = None /\ seen.csv /\ seen.log
    /\ res.out.ambiguous

\* d.txt
DataTxt == <<100, 46, 116, 120, 116>>

\* a file named d.txt with no signature that satisfies both analyzers
TxtBothAnalyzers ==
    /\ file.name = DataTxt /\ is_file(file)
    /\ NoSignature /\ seen.csv /\ seen.log

\* C14 as stated: for such a file the map has exactly two entries, csv and
\* log at 0.6 each, and is_detection_ambiguous returns true at the default
\* threshold.
C14_TxtTwoCandidates ==
    TxtBothAnalyzers =>
        /\ Candidates =>
               /\ Len(res.out) = 2
               /\ Keys(res.out) = {"csv", "log"}
               /\ Get(res.out, "csv") = 60 /\ Get(res.out, "log") = 60
        /\ (Ambiguity /\ res.arg = DefaultThreshold) => res.out.ambiguous

\* C14 as amended: the map has three entries, text at 0.5 from the .txt
\* suffix and csv and log at 0.6 each, and is_detection_ambiguous returns
\* true at the default threshold.
C14_TxtThreeCandidates ==
    TxtBothAnalyzers =>
        /\ Candidates =>
               /\ Len(res.out) = 3
               /\ Keys(res.out) = {"text", "csv", "log"}
               /\ Get(res.out, "text") = 50
               /\ Get(res.out, "csv") = 60 /\ Get(res.out, "log") = 60
        /\ (Ambiguity /\ res.arg = DefaultThreshold) =>
               /\ res.out.ambiguous
               /\ Len(res.out.results) = 3

\* the ambiguity decision on such a file, at the default threshold
C14_Witness ==
    /\ TxtBothAnalyzers /\ Ambiguity /\ res.arg = DefaultThreshold
    /\ res.out.ambiguous
    /\ Keys(res.out.results) = {"text", "csv", "log"}

\* no entry of the map is followed by one of higher confidence
HighestFirst(d) == \A i, j \in 1..Len(d) : i < j => d[i][2] >= d[j][2]

\* C15 as stated: the candidates that detect_all_possible_types returns,
\* and those in the second component of is_detection_ambiguous, are ordered
\* by confidence, highest first.
C15_OrderedByConfidence ==
    /\ Candidates => HighestFirst(res.out)
    /\ Ambiguity => HighestFirst(res.out.results)

\* the tags of a map, in the order of its entries
KeySeq(d) == [i \in 1..Len(d) |-> d[i][1]]

AppendNew(q, t) == IF \E i \in 1..Len(q) : q[i] = t THEN q ELSE Append(q, t)

\* the tags in the order the strategies propose them: the signature's, the
\* extension's, csv, log
ProposalOrder ==
    LET a == IF seen.sig # {} THEN <<CHOOSE t \in seen.sig : TRUE>> ELSE <<>>
        b == IF seen.ext # None THEN AppendNew(a, seen.ext) ELSE a
        c == IF seen.csv THEN AppendNew(b, "csv") ELSE b
    IN  IF seen.log THEN AppendNew(c, "log") ELSE c

\* C15 as amended: both functions hand the candidates over as a map from tag
\* to confidence whose entries are in the order the strategies proposed them
\* (signature, extension, csv analyzer, log analyzer), whatever their
\* confidences; the order by confidence is used for the ambiguity decision
\* alone.
C15_OrderedByProposal ==
    /\ Candidates => KeySeq(res.out) = ProposalOrder
    /\ Ambiguity => KeySeq(res.out.results) = ProposalOrder

\* a map whose second entry has a higher confidence than its first
C15_Witness ==
    /\ Ambiguity /\ Len(res.out.results) >= 2
    /\ res.out.results[1][2] < res.out.results[2][2]
    /\ KeySeq(res.out.results) = ProposalOrder

(***************************************************************************)
(* Resources                                                               *)
(***************************************************************************)
\* how often the events hold e
Occurrences(events, e) == Cardinality({i \in 1..Len(events) : events[i] = e})

\* how often a call opened the file, and how many handles it left open
Opened(calls) == Occurrences(HandleEvents(file, calls), "open")
LeftOpen(calls) ==
    Occurrences(HandleEvents(file, calls), "open")
        - Occurrences(HandleEvents(file, calls), "close")

\* C16 as stated: one detect_file_type call opens the file at most twice,
\* and no handle is open when it returns or raises.
C16_AtMostTwoOpens ==
    Facade =>
        /\ Opened(res.out.calls) <= 2
        /\ LeftOpen(res.out.calls) = 0

\* C16 as amended: one detect_file_type call opens the file at most four
\* times, once for the binary prefix and up to three times for a line sample
\* (the analyzer of a csv or log extension, then both analyzers), and no
\* handle is open when it returns or raises.
C16_AtMostFourOpens ==
    Facade =>
        /\ Opened(res.out.calls) <= 4
        /\ Occurrences(res.out.calls, "detect_by_signature") <= 1
        /\ Occurrences(res.out.calls, "looks_like_csv")
               + Occurrences(res.out.calls, "looks_like_log") <= 3
        /\ LeftOpen(res.out.calls) = 0

\* a .csv file whose lines satisfy no analyzer: four opens
C16_Witness ==
    /\ Facade /\ CanOpen(file) /\ seen.ext = "csv" /\ ~seen.csv /\ ~seen.log
    /\ res.out.calls = <<"detect_by_signature", "detect_by_extension",
                         "looks_like_csv", "looks_like_csv", "looks_like_log">>
    /\ Opened(res.out.calls) = 4 /\ LeftOpen(res.out.calls) = 0

Signature == res.op = "detect_by_signature"
Analyzer == res.op \in {"looks_like_csv", "looks_like_log"}

\* C17: detect_by_signature reads at most 16 bytes, and an analyzer keeps at
\* most sample_lines lines and leaves its loop at the next one, so the lines
\* it takes from the file are bounded by sample_lines and not by the length
\* of the file.
C17_BoundedReads ==
    /\ Signature => res.out.bytes_read <= HeaderBytes
    /\ Analyzer =>
           /\ res.out.fetched <= res.arg + 1
           /\ res.out.fetched <= Len(file.lines)

\* a file of more than 16 bytes, of which 16 are read
C17_Witness ==
    /\ Signature /\ CanOpen(file) /\ st_size(file) > HeaderBytes
    /\ res.out.bytes_read = HeaderBytes /\ res.out.value = "wav"

(***************************************************************************)
(* Properties of the extension lookup and of the analyzers                 *)
(***************************************************************************)
Extension == res.op = "detect_by_extension"

\* str.upper() on ASCII
Upper(s) == [i \in 1..Len(s) |-> IF s[i] \in 97..122 THEN s[i] - 32 ELSE s[i]]

\* the file under the name whose suffix is replaced by s
WithSuffix(f, s) ==
    [f EXCEPT !.name = SubSeq(f.name, 1, Len(f.name) - Len(suffix(f))) \o s]

\* .csv and .tsv
CsvSuffixes == {<<46, 99, 115, 118>>, <<46, 116, 115, 118>>}

\* C18: detect_by_extension gives a name the result it gives the name with
\* the suffix in upper case and the name with the suffix in lower case, and
\* it gives csv for .csv and for .tsv.
C18_CaseInsensitiveExtension ==
    Extension =>
        /\ res.out = detect_by_extension(WithSuffix(file, Upper(suffix(file))))
        /\ res.out = detect_by_extension(WithSuffix(file, Lower(suffix(file))))
        /\ Lower(suffix(file)) \in CsvSuffixes => res.out = "csv"

\* the name d.CSV, whose suffix differs from its lower case
C18_Witness ==
    /\ Extension /\ suffix(file) = Upper(<<46, 99, 115, 118>>)
    /\ suffix(file) # Lower(suffix(file))
    /\ res.out = "csv"

\* the lines of the file as text, stripped, in file order
StrippedLines ==
    IF CanOpen(file) THEN [i \in 1..Len(file.lines) |-> Strip(TextOf(file)[i])]
    ELSE <<>>

NonEmpty(lines) == SelectSeq(lines, LAMBDA line : line # <<>>)

FirstN(lines, n) == SubSeq(lines, 1, Min(n, Len(lines)))

\* comma, tab, semicolon, pipe
Delimiters == {44, 9, 59, 124}

\* at least two lines, and a delimiter that occurs once per line on average
Tabular(lines) ==
    /\ Len(lines) >= 2
    /\ \E d \in Delimiters :
           Sum([i \in 1..Len(lines) |-> Count(lines[i], d)]) >= Len(lines)

\* at least one line, and half of the lines with a timestamp or half of the
\* lines with a level keyword
LogLike(lines) ==
    /\ lines # <<>>
    /\ \/ 2 * Cardinality({i \in 1..Len(lines) : timestamp_pattern(lines[i])})
              >= Len(lines)
       \/ 2 * Cardinality({i \in 1..Len(lines) : log_level_pattern(lines[i])})
              >= Len(lines)

\* the verdict of the called analyzer on the given lines
Verdict(lines) ==
    IF res.op = "looks_like_csv" THEN Tabular(lines) ELSE LogLike(lines)

\* C19 as stated: an analyzer judges the first sample_lines non-empty lines
\* of the file; blank lines do not count against the bound.
C19_FirstNonEmptyLines ==
    Analyzer => res.out.value = Verdict(FirstN(NonEmpty(StrippedLines), res.arg))

\* C19 as amended: an analyzer judges the non-empty lines among the first
\* sample_lines lines of the file; blank lines are dropped and do count
\* against the bound.
C19_NonEmptyOfFirstLines ==
    Analyzer => res.out.value = Verdict(NonEmpty(FirstN(StrippedLines, res.arg)))

\* a blank line, then a log line, sampled with sample_lines = 1: the blank
\* line uses up the sample
C19_Witness ==
    /\ res.op = "looks_like_log" /\ res.arg = 1 /\ CanOpen(file)
    /\ Len(StrippedLines) = 2 /\ StrippedLines[1] = <<>>
    /\ LogLike(<<StrippedLines[2]>>)
    /\ ~res.out.value

\* C20: looks_like_csv returns true exactly when it sampled at least two
\* non-empty lines and one of the four delimiters has an average count per
\* sampled line of at least 1; with fewer than two sampled lines, as for an
\* empty file, it returns false.
C20_TabularIffDelimiterPerLine ==
    res.op = "looks_like_csv" =>
        LET sampled == NonEmpty(FirstN(StrippedLines, res.arg))
            perLine(d) == [i \in 1..Len(sampled) |-> Count(sampled[i], d)]
        IN  /\ res.out.value <=>
                   /\ Len(sampled) >= 2
                   /\ \E d \in Delimiters : Sum(perLine(d)) >= Len(sampled)
            /\ Len(sampled) < 2 => ~res.out.value
            /\ (CanOpen(file) /\ file.lines = <<>>) => ~res.out.value

\* three sampled lines with two commas between them: below one per line
C20_Witness ==
    /\ res.op = "looks_like_csv" /\ res.arg = DefaultSampleLines
    /\ Len(NonEmpty(StrippedLines)) = 3
    /\ Sum([i \in 1..3 |-> Count(NonEmpty(StrippedLines)[i], 44)]) = 2
    /\ ~res.out.value

\* the sampled lines that start with a timestamp, and those with a level
\* keyword
WithTimestamp(lines) == {i \in 1..Len(lines) : timestamp_pattern(lines[i])}
WithLevel(lines) == {i \in 1..Len(lines) : log_level_pattern(lines[i])}

\* C21: on a sample of at least one line looks_like_log returns true exactly
\* when the lines with a timestamp are at least half of the sample or the
\* lines with a level keyword are; the two counts are never added, so a
\* sample in which each family has fewer than half of the lines is rejected
\* even when the two families together have half or more.  (A sample of no
\* line is rejected.)
C21_FamiliesCountedSeparately ==
    res.op = "looks_like_log" =>
        LET sampled == NonEmpty(FirstN(StrippedLines, res.arg))
            n == Len(sampled)
            ts == Cardinality(WithTimestamp(sampled))
            lvl == Cardinality(WithLevel(sampled))
        IN  /\ n > 0 => (res.out.value <=> (2 * ts >= n \/ 2 * lvl >= n))
            /\ n = 0 => ~res.out.value
            /\ (2 * ts < n /\ 2 * lvl < n) => ~res.out.value

\* three sampled lines: one with a timestamp only, one with a level only
C21_Witness ==
    /\ res.op = "looks_like_log" /\ res.arg = DefaultSampleLines
    /\ LET sampled == NonEmpty(StrippedLines)
       IN  /\ Len(sampled) = 3
           /\ Cardinality(WithTimestamp(sampled)) = 1
           /\ Cardinality(WithLevel(sampled)) = 1
           /\ Cardinality(WithTimestamp(sampled) \cup WithLevel(sampled)) = 2
    /\ ~res.out.value

(***************************************************************************)
(* Properties of the signature table                                       *)
(***************************************************************************)
\* the pattern an entry of the table requires at offset 0
PatternAtStart(t) ==
    IF t = "wav" THEN BINARY_SIGNATURES.wav[1] ELSE BINARY_SIGNATURES[t]

\* no pattern at offset 0 starts as another one does: no bytes match two
\* entries
TableExclusive ==
    \A t, u \in SignatureTags :
        t # u => PatternAtStart(t)[1] # PatternAtStart(u)[1]

Reverse(q) == [i \in 1..Len(q) |-> q[Len(q) + 1 - i]]

\* C22: detect_by_signature returns wav only for RIFF at offset 0 and WAVE
\* at offset 8, any other tag only for its pattern at offset 0, and None for
\* bytes that match no entry, an empty file and a truncated pattern among
\* them; no bytes match two entries, and the table read in the reverse
\* order gives the same result.
C22_SignatureTable ==
    /\ TableExclusive
    /\ Cardinality(seen.sig) <= 1
    /\ Signature =>
           /\ res.out.value = "wav" =>
                  /\ PatternAt(Bytes(file), 0, BINARY_SIGNATURES.wav[1])
                  /\ PatternAt(Bytes(file), 8, BINARY_SIGNATURES.wav[2])
           /\ res.out.value = None <=> seen.sig = {}
           /\ res.out.value # None => res.out.value \in seen.sig
           /\ CanOpen(file) =>
                  res.out.value =
                      IF Read(file, HeaderBytes) = <<>> THEN None
                      ELSE FirstSignature(Read(file, HeaderBytes),
                                          Reverse(SignatureOrder))

\* RIFF at offset 0 of a file that is too short for, or has no, WAVE at 8
C22_Witness ==
    /\ Signature /\ CanOpen(file)
    /\ PatternAt(Bytes(file), 0, BINARY_SIGNATURES.wav[1])
    /\ ~PatternAt(Bytes(file), 8, BINARY_SIGNATURES.wav[2])
    /\ res.out.value = None

Best(d) ==
    LET i == CHOOSE i \in 1..Len(d) :
                 /\ \A j \in 1..Len(d) : d[j][2] <= d[i][2]
                 /\ \A j \in 1..(i - 1) : d[j][2] < d[i][2]
    IN  [tag |-> d[i][1], conf |-> d[i][2]]

\* C26 as stated: when detect_with_confidence returns a tag, the best entry
\* of detect_all_possible_types has that tag and that confidence; the map is
\* empty exactly when detect_with_confidence returns None.
C26_PathsAgree ==
    Candidates =>
        /\ res.out = <<>> <=> seen.tag = None
        /\ seen.tag # None =>
               /\ Best(res.out).tag = seen.tag
               /\ Best(res.out).conf = seen.conf

\* C26 as amended: as stated, except that a map whose only entry is text
\* carries 0.4 where detect_with_confidence returns 0.5.
C26_PathsAgreeButTextAlone ==
    Candidates =>
        /\ res.out = <<>> <=> seen.tag = None
        /\ seen.tag # None =>
               /\ Best(res.out).tag = seen.tag
               /\ Best(res.out).conf =
                      IF TextAlone(res.out) THEN 40 ELSE seen.conf
        /\ TextAlone(res.out) => seen.conf = 50

\* both analyzers agree on a file without a known extension: two entries at
\* 0.6, and the first one inserted is the tag of the single-best path
C26_Witness ==
    /\ Candidates /\ seen.sig = {} /\ seen.ext = None /\ seen.csv /\ seen.log
    /\ Len(res.out) = 2 /\ res.out[1][2] = res.out[2][2]
    /\ Best(res.out).tag = seen.tag /\ seen.tag = "csv" /\ seen.conf = 60

(***************************************************************************)
(* The tags of the facade against the supported set                        *)
(***************************************************************************)
\* C27: every tag detect_file_type returns is a supported type:
\* is_supported_type is true of the result of every call that succeeds.
C27_ReturnsSupportedOnly ==
    (Facade /\ res.out.raised = None) => is_supported_type(res.out.value)

(***************************************************************************)
(* A signature match against ambiguity                                     *)
(***************************************************************************)
\* C28: when a binary signature matches, the map holds the signature's tag
\* at 1.0 and every other tag at 0.8 at most, and is_detection_ambiguous at
\* the default threshold 0.15 reports no ambiguity.
C28_SignatureNeverAmbiguous ==
    seen.sig # {} =>
        /\ Candidates =>
               \A t \in Keys(res.out) :
                   IF t \in seen.sig THEN Get(res.out, t) = 100
                   ELSE Get(res.out, t) <= 80
        /\ (Ambiguity /\ res.arg = DefaultThreshold) =>
               /\ ~res.out.ambiguous
               /\ \A t \in Keys(res.out.results) :
                      IF t \in seen.sig THEN Get(res.out.results, t) = 100
                      ELSE Get(res.out.results, t) <= 80

\* a signature under a .csv name with tabular lines: 1.0 against 0.8
C28_Witness ==
    /\ Ambiguity /\ res.arg = DefaultThreshold
    /\ seen.sig # {} /\ seen.ext = "csv" /\ seen.csv
    /\ Get(res.out.results, "csv") = 80
    /\ ~res.out.ambiguous

(***************************************************************************)
(* The minimum evidence of the two analyzers                               *)
(***************************************************************************)
\* the non-empty lines of the default sample
DefaultSample == NonEmpty(FirstN(StrippedLines, DefaultSampleLines))

\* a line that starts with a timestamp or holds a level keyword
LogLine(line) == timestamp_pattern(line) \/ log_level_pattern(line)

\* C29: looks_like_log accepts a sample of one non-empty line that carries
\* a timestamp or a level keyword, looks_like_csv rejects every sample of
\* fewer than two non-empty lines; so a file of one such line, without a
\* signature, is scored log, 0.8 under a .log name and 0.6 under any other,
\* and a file of one line is never scored csv on its content.
C29_MinimumEvidence ==
    /\ res.op = "looks_like_log" =>
           LET sampled == NonEmpty(FirstN(StrippedLines, res.arg))
           IN  Len(sampled) = 1 => (res.out.value <=> LogLine(sampled[1]))
    /\ res.op = "looks_like_csv" =>
           (Len(NonEmpty(FirstN(StrippedLines, res.arg))) < 2 => ~res.out.value)
    /\ (Scorer /\ Len(DefaultSample) = 1 /\ seen.sig = {}) =>
           /\ LogLine(DefaultSample[1]) =>
                  /\ res.out.tag = "log"
                  /\ res.out.conf = IF seen.ext = "log" THEN 80 ELSE 60
           /\ res.out.tag = "csv" => (seen.ext = "csv" /\ res.out.conf = 50)
           /\ ~seen.csv

\* one line with a level keyword under a .csv name: log at 0.6
C29_Witness ==
    /\ Scorer /\ Len(DefaultSample) = 1 /\ seen.sig = {}
    /\ log_level_pattern(DefaultSample[1])
    /\ Count(DefaultSample[1], 44) = 0
    /\ seen.ext = "csv" /\ res.out.tag = "log" /\ res.out.conf = 60

(***************************************************************************)
(* The convert pipeline                                                    *)
(***************************************************************************)
Convert == res.op = "execute_convert"

\* the pipeline called parser.parse
ReachedParse == res.out.step \in {"parse", "converter", "convert", "done"}

\* the tags of the extensions a parser declares
TypesOf(parser) ==
    {EXTENSION_MAP[Lower(parser.supported_formats[i])] :
        i \in {j \in 1..Len(parser.supported_formats) :
                  Lower(parser.supported_formats[j]) \in DOMAIN EXTENSION_MAP}}

\* C23: whenever execute_convert reaches the parse step, the parser it calls
\* is one registered for the tag detect_file_type returned.
C23_ParserOfDetectedType ==
    (Convert /\ ReachedParse) => res.out.file_type \in TypesOf(res.out.parser)

(***************************************************************************)
(* The parser registry                                                     *)
(***************************************************************************)
Lookup == res.op = "get_parser_for_extension"

\* parser declares the extension e, compared without case
Declares(parser, e) ==
    \E j \in 1..Len(parser.supported_formats) :
        Lower(parser.supported_formats[j]) = Lower(e)

\* the last parser of the registrations h that declares e
MostRecent(h, e) ==
    LET hits == {i \in 1..Len(h) : Declares(h[i], e)}
    IN  IF hits = {} THEN NoParser
        ELSE h[CHOOSE i \in hits : \A j \in hits : j <= i]

\* C24: after any registrations and clears, get_parser_for_extension(e)
\* returns the parser registered last, since the last clear, among those
\* that declare e without regard to case, and None when there is none; so a
\* registration replaces the earlier parser for the extensions it declares
\* and for no other.
C24_MostRecentRegistration ==
    /\ Lookup => res.out = MostRecent(history, res.arg)
    /\ \A e \in QueryExtensions :
           get_parser_for_extension(manager, e) = MostRecent(history, e)

\* CSVParser, then a parser that declares .CSV: .tsv stays with CSVParser
C24_Witness ==
    /\ Lookup /\ res.arg = <<46, 116, 115, 118>>
    /\ history = <<CSVParser, UpperCaseParser>>
    /\ res.out = CSVParser
    /\ get_parser_for_extension(manager, <<46, 99, 115, 118>>) = UpperCaseParser

\* the parsers get_parser_for_extension can still return
Reachable(m) == {m.parsers[i][2] : i \in 1..Len(m.parsers)}

\* C30: after any registrations and clears, every name list_parsers returns
\* is the name of a parser some extension still leads to, and the parsers
\* count of get_stats is the number of parsers reachable through extensions.
C30_RegistriesConsistent ==
    /\ res.op = "list_parsers" =>
           \A i \in 1..Len(res.out) :
               \E parser \in Reachable(manager) :
                   parser.parser_name = res.out[i]
    /\ res.op = "get_stats" =>
           res.out.parsers = Cardinality(Reachable(manager))

====
